---------------------------- MODULE Spec2Model ----------------------------
(***************************************************************************)
(* Anesthesia Congress Calendar, operational front end (assets/app.js,     *)
(* second half of the file): the two fetches, classifyEvents, rendering,   *)
(* language switch, the wall clock in UTC and in the viewer's zone; and    *)
(* the .ics builders of the versions that had the download button.         *)
(*                                                                         *)
(* Strings are sequences of one-character strings, so that includes(),     *)
(* toLowerCase(), the >= filter and localeCompare() are computed character *)
(* by character.  A missing (undefined/null) field and the empty string    *)
(* are both << >>: the code reads these fields only through `x || ...`.    *)
(***************************************************************************)
EXTENDS Integers, Sequences, FiniteSets, TLC

VARIABLES
    events,        \* data.events as served by DATA_URL
    now,           \* the wall clock, as a count of UTC days since Epoch
    localDay,      \* the viewer's local calendar day, counted like `now`
    zone,          \* sign of the viewer's UTC offset: -1 west, 0, 1 east
    fetches,       \* state of the two fetchJson promises of main()
    phase,         \* position of main(): "loading", "ready", "failed"
    i18n,          \* appState.i18n
    data,          \* appState.data
    deadlines,     \* appState.deadlines
    congresses,    \* appState.congresses
    lang,          \* appState.lang
    storedLang,    \* localStorage["acc_lang"]
    classifiedOn,  \* the clock value read by the classifyEvents call of main()
    page,          \* the children of the two list containers of the document
    renderedOn,    \* the clock value read by the last renderAll()
    ics,           \* the invite built by the last download click
    uiCall,        \* the last call of ui(): its arguments and its result
    boot           \* the state of the version that renders before the data arrives

vars == <<events, now, localDay, zone, fetches, phase, i18n, data, deadlines,
          congresses, lang, storedLang, classifiedOn, page, renderedOn, ics,
                   uiCall, boot>>

----------------------------------------------------------------------------
(* Bounds *)

MaxEvents == 3
MaxDay == 3
MaxPageEvents == 2

----------------------------------------------------------------------------
(* Characters and strings *)

\* The characters used, in UTF-16 code unit order.
CharTable ==
    <<" ", "-", "0", "1", "2", "3", "4", "5", "6", "7", "8", "9",
      "A", "B", "C", "D", "E", "F", "G", "H", "I", "J", "K", "L", "M",
      "N", "O", "P", "Q", "R", "S", "T", "U", "V", "W", "X", "Y", "Z",
      "[", "]", "_",
      "a", "b", "c", "d", "e", "f", "g", "h", "i", "j", "k", "l", "m",
      "n", "o", "p", "q", "r", "s", "t", "u", "v", "w", "x", "y", "z">>

Chars == { CharTable[i] : i \in 1..Len(CharTable) }

CodeTable == [c \in Chars |-> CHOOSE i \in 1..Len(CharTable) : CharTable[i] = c]

CodeOf(c) == CodeTable[c]

IsUpper(c) == CodeOf(c) >= CodeOf("A") /\ CodeOf(c) <= CodeOf("Z")

LowerChar(c) ==
    IF IsUpper(c) THEN CharTable[CodeOf(c) - CodeOf("A") + CodeOf("a")] ELSE c

LowerTable == [c \in Chars |-> LowerChar(c)]

toLowerCase(s) == [i \in 1..Len(s) |-> LowerTable[s[i]]]

includes(hay, needle) ==
    \E i \in 0..(Len(hay) - Len(needle)) :
        SubSeq(hay, i + 1, i + Len(needle)) = needle

\* Code unit comparison of two strings: -1, 0 or 1.
RECURSIVE StrCmp(_, _)
StrCmp(a, b) ==
    IF a = << >> /\ b = << >> THEN 0
    ELSE IF a = << >> THEN -1
    ELSE IF b = << >> THEN 1
    ELSE IF CodeOf(Head(a)) < CodeOf(Head(b)) THEN -1
    ELSE IF CodeOf(Head(a)) > CodeOf(Head(b)) THEN 1
    ELSE StrCmp(Tail(a), Tail(b))

\* a >= b on strings.
StrGeq(a, b) == StrCmp(a, b) >= 0

\* String.prototype.localeCompare on strings of digits and hyphens.
localeCompare(a, b) == StrCmp(a, b)

----------------------------------------------------------------------------
(* Calendar dates *)

\* Day 0 of the clock: 2026-12-30, so that the window crosses a year end.
Epoch == <<2026, 12, 30>>

IsLeap(y) == (y % 4 = 0 /\ y % 100 # 0) \/ y % 400 = 0

DaysInMonth(y, m) ==
    IF m = 2 THEN (IF IsLeap(y) THEN 29 ELSE 28)
    ELSE IF m \in {4, 6, 9, 11} THEN 30
    ELSE 31

NextDay(ymd) ==
    LET y == ymd[1]
        m == ymd[2]
        d == ymd[3]
    IN  IF d < DaysInMonth(y, m) THEN <<y, m, d + 1>>
        ELSE IF m < 12 THEN <<y, m + 1, 1>>
        ELSE <<y + 1, 1, 1>>

RECURSIVE AddDays(_, _)
AddDays(ymd, n) == IF n = 0 THEN ymd ELSE AddDays(NextDay(ymd), n - 1)

Digit(n) == CharTable[CodeOf("0") + n]

Pad2(n) == <<Digit(n \div 10), Digit(n % 10)>>

Pad4(n) ==
    <<Digit(n \div 1000), Digit((n \div 100) % 10),
      Digit((n \div 10) % 10), Digit(n % 10)>>

\* "YYYY-MM-DD"
ISODate(ymd) == Pad4(ymd[1]) \o <<"-">> \o Pad2(ymd[2]) \o <<"-">> \o Pad2(ymd[3])

\* new Date().toISOString().slice(0, 10) when the clock reads `clock`.
todayISO(clock) == ISODate(AddDays(Epoch, clock))


----------------------------------------------------------------------------
(* Constants of the operational version *)

DEADLINE_TYPES ==
    << <<"a", "b", "s", "t", "r", "a", "c", "t", "_", "d", "e", "a", "d", "l", "i", "n", "e">>,
       <<"p", "b", "l", "_", "d", "e", "a", "d", "l", "i", "n", "e">>,
       <<"o", "t", "h", "e", "r", "_", "d", "e", "a", "d", "l", "i", "n", "e">>,
       <<"r", "e", "g", "i", "s", "t", "r", "a", "t", "i", "o", "n", "_", "d", "e", "a", "d", "l", "i", "n", "e">>,
       <<"h", "o", "t", "e", "l", "_", "d", "e", "a", "d", "l", "i", "n", "e">>,
       <<"e", "a", "r", "l", "y", "_", "b", "i", "r", "d", "_", "d", "e", "a", "d", "l", "i", "n", "e">>,
       <<"s", "u", "b", "m", "i", "s", "s", "i", "o", "n", "_", "d", "e", "a", "d", "l", "i", "n", "e">>,
       <<"p", "o", "s", "t", "e", "r", "_", "d", "e", "a", "d", "l", "i", "n", "e">>,
       <<"d", "e", "a", "d", "l", "i", "n", "e">> >>

CONGRESS_TYPES ==
    << <<"c", "o", "n", "g", "r", "e", "s", "s">>,
       <<"m", "e", "e", "t", "i", "n", "g">>,
       <<"m", "a", "i", "n", "_", "e", "v", "e", "n", "t">>,
       <<"a", "n", "n", "u", "a", "l", "_", "m", "e", "e", "t", "i", "n", "g">> >>

\* String(x) of a plain object.
ObjectString == <<"[", "o", "b", "j", "e", "c", "t", " ", "O", "b", "j", "e", "c", "t", "]">>

----------------------------------------------------------------------------
(* Events *)

\* An event has the fields id, type, series, year, title, date, start_date,
\* end_date and priority.  title is [isObj, en]: a {en: ...} object, or a plain
\* string held in en (<< >> when the field is missing).  year and priority are
\* << >> when missing, else a one-element sequence holding the number.

\* Mutant: the start falls back to end_date.
getStart_endFallback(ev) ==
    IF ev.date # << >> THEN ev.date
    ELSE IF ev.start_date # << >> THEN ev.start_date
    ELSE ev.end_date

getStart(ev) ==
    IF ev.date # << >> THEN ev.date
    ELSE IF ev.start_date # << >> THEN ev.start_date
    ELSE << >>

getEnd(ev) ==
    IF ev.end_date # << >> THEN ev.end_date
    ELSE IF ev.date # << >> THEN ev.date
    ELSE IF ev.start_date # << >> THEN ev.start_date
    ELSE << >>

isDeadline(ev) ==
    LET type == toLowerCase(ev.type)
    IN  \E k \in 1..Len(DEADLINE_TYPES) : includes(type, DEADLINE_TYPES[k])

\* String(ev.title?.en || ev.title || "")
titleText(ev) ==
    IF ev.title.en # << >> THEN ev.title.en
    ELSE IF ev.title.isObj THEN ObjectString
    ELSE << >>

isCongress(ev) ==
    LET type   == toLowerCase(ev.type)
        series == toLowerCase(ev.series)
        title  == toLowerCase(titleText(ev))
    IN  \/ \E k \in 1..Len(CONGRESS_TYPES) : includes(type, CONGRESS_TYPES[k])
        \/ includes(series, <<"w", "c", "a">>) \/ includes(series, <<"w", "f", "s", "a">>)
        \/ includes(title, <<"w", "o", "r", "l", "d", " ", "c", "o", "n", "g", "r", "e", "s", "s">>) \/ includes(title, <<"w", "c", "a">>)

\* Mutant: the filter drops the events that start today.
upcomingFilter_strict(evs, todayStr) ==
    SelectSeq(evs, LAMBDA ev : getStart(ev) # << >> /\ StrCmp(getStart(ev), todayStr) > 0)

\* events.filter(pred), keeping the order.
upcomingFilter(evs, todayStr) ==
    SelectSeq(evs, LAMBDA ev : getStart(ev) # << >> /\ StrGeq(getStart(ev), todayStr))

\* Mutant: the congress rules are tried before the deadline rule.
categoryOf_congressFirst(ev) ==
    IF isCongress(ev) THEN "C"
    ELSE IF isDeadline(ev) THEN "D"
    ELSE "D"

\* Mutant: the fallback of the earlier versions, series and year make a congress.
categoryOf_seriesYearFallback(ev) ==
    IF isDeadline(ev) THEN "D"
    ELSE IF isCongress(ev) THEN "C"
    ELSE IF ev.series # << >> /\ ev.year # << >> THEN "C"
    ELSE "D"

\* The forEach of classifyEvents: "D" for deadlines.push, "C" for congresses.push.
categoryOf(ev) ==
    IF isDeadline(ev) THEN "D"
    ELSE IF isCongress(ev) THEN "C"
    ELSE "D"

pushedDeadlines(upcoming) == SelectSeq(upcoming, LAMBDA ev : categoryOf(ev) = "D")

\* Mutant: an independent `if`, not an `else if`.
pushedCongresses_independentIf(upcoming) == SelectSeq(upcoming, LAMBDA ev : isCongress(ev))

pushedCongresses(upcoming) == SelectSeq(upcoming, LAMBDA ev : categoryOf(ev) = "C")

sortFn(a, b) == localeCompare(getStart(a), getStart(b))

\* Array.prototype.sort(sortFn): a stable sort.
RECURSIVE InsertStable(_, _)
InsertStable(sorted, x) ==
    IF sorted = << >> THEN <<x>>
    ELSE IF sortFn(Head(sorted), x) > 0 THEN <<x>> \o sorted
    ELSE <<Head(sorted)>> \o InsertStable(Tail(sorted), x)

RECURSIVE sortEvents(_)
sortEvents(s) ==
    IF s = << >> THEN << >>
    ELSE InsertStable(sortEvents(SubSeq(s, 1, Len(s) - 1)), s[Len(s)])

\* Mutant: the key of computeActiveYearBySeries, ev.series || "UNKNOWN".
seriesKey_unknown(ev) ==
    IF ev.series # << >> THEN toLowerCase(ev.series)
    ELSE <<"u", "n", "k", "n", "o", "w", "n">>

seriesKey(ev) == toLowerCase(ev.series)

\* The dedup loop over the sorted congresses.
RECURSIVE dedupLoop(_, _, _)
dedupLoop(rest, seen, deduped) ==
    IF rest = << >> THEN deduped
    ELSE LET ev  == Head(rest)
             key == seriesKey(ev)
         IN  IF key # << >> /\ key \in seen
             THEN dedupLoop(Tail(rest), seen, deduped)
             ELSE dedupLoop(Tail(rest),
                            IF key # << >> THEN seen \cup {key} ELSE seen,
                            Append(deduped, ev))

\* Mutant: the dedup loop is run over the deadlines as well.
classifyEvents_dedupBoth(evs, clock) ==
    LET todayStr == todayISO(clock)
        upcoming == upcomingFilter(evs, todayStr)
    IN  [deadlines  |-> dedupLoop(sortEvents(pushedDeadlines(upcoming)), {}, << >>),
         congresses |-> dedupLoop(sortEvents(pushedCongresses(upcoming)), {}, << >>),
         events     |-> evs]

\* Mutant: the sort is applied to the array passed in.
classifyEvents_sortsInput(evs, clock) ==
    LET todayStr == todayISO(clock)
        upcoming == upcomingFilter(evs, todayStr)
    IN  [deadlines  |-> sortEvents(pushedDeadlines(upcoming)),
         congresses |-> dedupLoop(sortEvents(pushedCongresses(upcoming)), {}, << >>),
         events     |-> sortEvents(evs)]

\* The two lists returned, and the array passed in as the call leaves it.
classifyEvents(evs, clock) ==
    LET todayStr == todayISO(clock)
        upcoming == upcomingFilter(evs, todayStr)
    IN  [deadlines  |-> sortEvents(pushedDeadlines(upcoming)),
         congresses |-> dedupLoop(sortEvents(pushedCongresses(upcoming)), {}, << >>),
         events     |-> evs]

----------------------------------------------------------------------------
(* The documents served and the environment *)

NoTitle == [isObj |-> FALSE, en |-> << >>]

Ev(type, series, year, title, date, start, end, priority) ==
    [type |-> type, series |-> series, year |-> year, title |-> title,
     date |-> date, start_date |-> start, end_date |-> end, priority |-> priority]

DayA == ISODate(<<2026, 12, 31>>)
DayB == ISODate(<<2027, 1, 1>>)
DayC == ISODate(<<2027, 1, 2>>)

\* The event records an events.json may hold (without their position).
EventPool ==
    { Ev(<<"a", "b", "s", "t", "r", "a", "c", "t", "_", "d", "e", "a", "d", "l", "i", "n", "e">>, <<"W", "C", "A">>, <<2028>>, NoTitle, DayB, << >>, << >>, << >>),
      Ev(<<"r", "e", "g", "i", "s", "t", "r", "a", "t", "i", "o", "n", "_", "d", "e", "a", "d", "l", "i", "n", "e">>, <<"A", "S", "A">>, <<2027>>, NoTitle, DayB, << >>, << >>, <<5>>),
      Ev(<<"m", "e", "e", "t", "i", "n", "g", "_", "d", "e", "a", "d", "l", "i", "n", "e">>, <<"W", "C", "A">>, << >>,
         [isObj |-> TRUE, en |-> <<"W", "o", "r", "l", "d", " ", "C", "o", "n", "g", "r", "e", "s", "s", " ", "2", "0", "2", "8">>], DayA, << >>, << >>, << >>),
      Ev(<<"c", "o", "n", "g", "r", "e", "s", "s">>, <<"A", "S", "A">>, <<2026>>, NoTitle, << >>, DayA, DayC, << >>),
      Ev(<<"a", "n", "n", "u", "a", "l", "_", "m", "e", "e", "t", "i", "n", "g">>, <<"a", "s", "a">>, <<2027>>, NoTitle, << >>, DayB, DayB, << >>),
      Ev(<<"c", "o", "n", "g", "r", "e", "s", "s">>, <<"A", "S", "A", " ">>, <<2028>>, NoTitle, << >>, DayC, DayC, <<5>>),
      Ev(<<"c", "o", "n", "g", "r", "e", "s", "s">>, << >>, << >>, NoTitle, << >>, DayB, DayC, << >>),
      Ev(<<"m", "a", "i", "n", "_", "e", "v", "e", "n", "t">>, << >>, << >>,
         [isObj |-> FALSE, en |-> <<"R", "e", "g", "i", "o", "n", "a", "l", " ", "d", "a", "y">>], << >>, DayB, << >>, <<5>>),
      Ev(<<"w", "e", "b", "i", "n", "a", "r">>, <<"A", "S", "A">>, <<2027>>, NoTitle, DayC, << >>, << >>, << >>),
      Ev(<<"w", "e", "b", "i", "n", "a", "r">>, << >>, << >>,
         [isObj |-> TRUE, en |-> <<"W", "o", "r", "l", "d", " ", "C", "o", "n", "g", "r", "e", "s", "s", " ", "2", "0", "2", "8">>], DayC, << >>, << >>, << >>),
      Ev(<<"c", "o", "n", "g", "r", "e", "s", "s">>, <<"A", "S", "A">>, <<2027>>, NoTitle, << >>, << >>, DayC, << >>) }

\* The i-th element of the array is a distinct object: id is its position.
WithIds(s) == [i \in 1..Len(s) |-> [id |-> i] @@ s[i]]

InputArrays ==
    UNION { { WithIds(s) : s \in [1..n -> EventPool] } : n \in 0..MaxEvents }

\* The event records of the documents with which the whole page is exercised:
\* dated on each of the days the clock can read, and with dates that are not
\* YYYY-MM-DD.
PagePool ==
    { Ev(<<"a", "b", "s", "t", "r", "a", "c", "t", "_", "d", "e", "a", "d", "l", "i", "n", "e">>, <<"W", "C", "A">>, <<2028>>, NoTitle, ISODate(Epoch), << >>, << >>, << >>),
      Ev(<<"a", "b", "s", "t", "r", "a", "c", "t", "_", "d", "e", "a", "d", "l", "i", "n", "e">>, <<"A", "S", "A">>, <<2027>>, NoTitle, DayA, << >>, << >>, << >>),
      Ev(<<"c", "o", "n", "g", "r", "e", "s", "s">>, <<"A", "S", "A">>, <<2027>>, NoTitle, << >>, DayA, DayB, << >>),
      Ev(<<"c", "o", "n", "g", "r", "e", "s", "s">>, <<"W", "C", "A">>, <<2028>>, NoTitle, << >>, DayB, DayC, << >>),
      Ev(<<"c", "o", "n", "g", "r", "e", "s", "s">>, << >>, << >>, NoTitle, <<"T", "B", "D">>, << >>, << >>, << >>),
      Ev(<<"p", "o", "s", "t", "e", "r", "_", "d", "e", "a", "d", "l", "i", "n", "e">>, << >>, << >>, NoTitle, << >>, <<"2", "0", "2", "7", "-", "0", "1">>, << >>, << >>) }

PageArrays ==
    UNION { { WithIds(s) : s \in [1..n -> PagePool] } : n \in 0..MaxPageEvents }

\* The characters that escapeICS rewrites; EmDash stands for the one
\* character of the title template.
Backslash == "\\"
Newline == "\n"
EmDash == "EMDASH"

\* An event record with the fields that only the invite builders read.
ICSEv(ev, location, link, status) ==
    ev @@ [location |-> location, link |-> link, status |-> status]

\* The event records on which the invite builders are exercised: single
\* dates and ranges, across the end of the year, with and without a start,
\* with texts that hold the characters escapeICS rewrites.
ICSPool ==
    { ICSEv(Ev(<<"a", "b", "s", "t", "r", "a", "c", "t", "_", "d", "e", "a", "d", "l", "i", "n", "e">>, <<"W", "C", "A">>, <<2028>>, NoTitle, DayB, << >>, << >>, << >>),
            << >>, << >>, << >>),
      ICSEv(Ev(<<"c", "o", "n", "g", "r", "e", "s", "s">>, <<"A", "S", "A">>, <<2026>>, NoTitle, << >>, DayA, DayC, << >>),
            <<"R", "i", "o", ",", " ", "B", "R">>, <<"x", ".", "o", "r", "g", "/", "a", ";", "b">>, << >>),
      ICSEv(Ev(<<"a", "n", "n", "u", "a", "l", "_", "m", "e", "e", "t", "i", "n", "g">>, <<"a", "s", "a">>, <<2027>>, NoTitle, << >>, DayB, DayB, << >>),
            << >>, << >>, << >>),
      ICSEv(Ev(<<"m", "a", "i", "n", "_", "e", "v", "e", "n", "t">>, << >>, << >>, [isObj |-> FALSE, en |-> <<"R", "e", "g", "i", "o", "n", "a", "l", " ", "d", "a", "y">>],
               << >>, DayB, << >>, <<5>>),
            << >>, << >>, << >>),
      ICSEv(Ev(<<"c", "o", "n", "g", "r", "e", "s", "s">>, <<"A", "S", "A">>, <<2027>>, NoTitle, << >>, << >>, DayC, << >>),
            << >>, << >>, << >>),
      ICSEv(Ev(<<"w", "e", "b", "i", "n", "a", "r">>, << >>, << >>, [isObj |-> TRUE, en |-> <<"A", Backslash, "B", ",", " ", "C", ";", "D">>],
               DayC, << >>, << >>, << >>),
            <<"H", "a", "l", "l", " ", "1", Newline, "F", "l", "o", "o", "r", " ", "2">>, << >>, << >>),
      ICSEv(Ev(<<"r", "e", "g", "i", "s", "t", "r", "a", "t", "i", "o", "n", "_", "d", "e", "a", "d", "l", "i", "n", "e">>, <<"A", "S", "A">>, <<2027>>, NoTitle, DayA, << >>, << >>, << >>),
            << >>, << >>, <<"p", "o", "s", "t", "p", "o", "n", "e", "d">>) }

ICSArrays ==
    UNION { { WithIds(s) : s \in [1..n -> ICSPool] } : n \in 0..MaxEvents }

Zones == {-1, 0, 1}

Langs == {"en", "pt"}

\* ?lang= of the URL ("" when absent) and navigator.language.
ParamLangs == {"", "pt", "xx"}
NavLangs == { <<"e", "n", "-", "U", "S">>, <<"p", "t", "-", "B", "R">>, << >> }

startsWith(s, prefix) ==
    Len(s) >= Len(prefix) /\ SubSeq(s, 1, Len(prefix)) = prefix

getStoredLang(stored) == IF stored \in {"en", "pt"} THEN stored ELSE ""

chooseInitialLang(paramLang, stored, navLanguage) ==
    IF paramLang \in {"pt", "en"} THEN paramLang
    ELSE IF getStoredLang(stored) # "" THEN getStoredLang(stored)
    ELSE LET nav == IF navLanguage # << >> THEN navLanguage ELSE <<"e", "n">>
         IN  IF startsWith(toLowerCase(nav), <<"p", "t">>) THEN "pt" ELSE "en"

----------------------------------------------------------------------------
(* Rendering *)

IsDigits(s) ==
    \A i \in DOMAIN s : CodeOf(s[i]) >= CodeOf("0") /\ CodeOf(s[i]) <= CodeOf("9")

RECURSIVE ToNumber(_)
ToNumber(s) ==
    IF s = << >> THEN 0
    ELSE 10 * ToNumber(SubSeq(s, 1, Len(s) - 1)) + (CodeOf(s[Len(s)]) - CodeOf("0"))

\* Day(MakeDate(y, m, d)): days since 1970-01-01 of a proleptic Gregorian date.
MakeDay(y, m, d) ==
    LET yy  == IF m <= 2 THEN y - 1 ELSE y
        era == yy \div 400
        yoe == yy - era * 400
        mp  == IF m > 2 THEN m - 3 ELSE m + 9
        doy == ((153 * mp + 2) \div 5) + d - 1
        doe == yoe * 365 + (yoe \div 4) - (yoe \div 100) + doy
    IN  era * 146097 + doe - 719468

\* new Date(str) of a date-only string, which is read as UTC midnight:
\* <<day>> for "YYYY", "YYYY-MM" and "YYYY-MM-DD", << >> for an Invalid Date.
DateParse(str) ==
    LET shape(n) ==
            /\ Len(str) = n
            /\ IsDigits(SubSeq(str, 1, 4))
            /\ (n >= 7 => str[5] = "-" /\ IsDigits(SubSeq(str, 6, 7)))
            /\ (n = 10 => str[8] = "-" /\ IsDigits(SubSeq(str, 9, 10)))
        y == ToNumber(SubSeq(str, 1, 4))
        m == IF Len(str) >= 7 THEN ToNumber(SubSeq(str, 6, 7)) ELSE 1
        d == IF Len(str) = 10 THEN ToNumber(SubSeq(str, 9, 10)) ELSE 1
    IN  IF (shape(4) \/ shape(7) \/ shape(10))
              /\ m \in 1..12 /\ d \in 1..DaysInMonth(y, m)
        THEN <<MakeDay(y, m, d)>>
        ELSE << >>

\* The label is ui("today") when diff === 0, and "in {n} days" with n = diff
\* otherwise; n is << >> when diff is NaN.
relativeDayLabel(dateStr, todayStr) ==
    LET d     == DateParse(dateStr)
        today == DateParse(todayStr)
    IN  IF d = << >> \/ today = << >> THEN [today |-> FALSE, n |-> << >>]
        ELSE IF d[1] - today[1] = 0 THEN [today |-> TRUE, n |-> << >>]
        ELSE [today |-> FALSE, n |-> <<d[1] - today[1]>>]

\* The children appended to a container; `clock` is read when the list is
\* not empty.
renderEventList(list, clock) ==
    IF Len(list) = 0 THEN [emptyState |-> TRUE, cards |-> << >>]
    ELSE LET todayStr == todayISO(clock)
         IN  [emptyState |-> FALSE,
              cards |-> [i \in 1..Len(list) |->
                           [ev |-> list[i],
                            label |-> relativeDayLabel(getStart(list[i]), todayStr)]]]

renderAll(congressList, deadlineList, clock) ==
    [congresses |-> renderEventList(congressList, clock),
     deadlines  |-> renderEventList(deadlineList, clock)]

----------------------------------------------------------------------------
(* The invite builders (versions of the front end with the .ics download) *)

PrevDay(ymd) ==
    LET y == ymd[1]
        m == ymd[2]
        d == ymd[3]
    IN  IF d > 1 THEN <<y, m, d - 1>>
        ELSE IF m > 1 THEN <<y, m - 1, DaysInMonth(y, m - 1)>>
        ELSE <<y - 1, 12, 31>>

\* ymd.split("-").map(parseInt) of a "YYYY-MM-DD" string.
SplitYMD(str) ==
    <<ToNumber(SubSeq(str, 1, 4)), ToNumber(SubSeq(str, 6, 7)), ToNumber(SubSeq(str, 9, 10))>>

RECURSIVE NumberToString(_)
NumberToString(n) ==
    IF n < 10 THEN <<Digit(n)>> ELSE NumberToString(n \div 10) \o <<Digit(n % 10)>>

\* The local date of new Date(y, m - 1, d); << >> stands for the TypeError
\* of undefined.split when the field is missing.
ymdToDateLocal(ymd) == IF ymd = << >> THEN << >> ELSE <<SplitYMD(ymd)>>

formatDateICSAllDay(dt) == NumberToString(dt[1]) \o Pad2(dt[2]) \o Pad2(dt[3])

\* The startYMD and endYMDExclusive that downloadICSForEvent passes to makeICS.
downloadDates(event) ==
    LET isRange == /\ event.type = <<"c", "o", "n", "g", "r", "e", "s", "s">>
                   /\ event.start_date # << >>
                   /\ event.end_date # << >>
    IN  IF ~isRange
        THEN LET dt == ymdToDateLocal(event.date)
             IN  IF dt = << >> THEN [status |-> "thrown", dtstart |-> << >>, dtend |-> << >>]
                 ELSE [status  |-> "built",
                       dtstart |-> formatDateICSAllDay(dt[1]),
                       dtend   |-> formatDateICSAllDay(NextDay(dt[1]))]
        ELSE [status  |-> "built",
              dtstart |-> formatDateICSAllDay(ymdToDateLocal(event.start_date)[1]),
              dtend   |-> formatDateICSAllDay(NextDay(ymdToDateLocal(event.end_date)[1]))]

getEventStartISO(ev) == IF ev.date # << >> THEN ev.date ELSE ev.start_date

getEventEndISO(ev) ==
    IF ev.end_date # << >> THEN ev.end_date
    ELSE IF ev.date # << >> THEN ev.date
    ELSE ev.start_date

toICSDate(isoDate) == SelectSeq(isoDate, LAMBDA c : c # "-")

\* new Date(isoDate) is UTC midnight of the date; getDate/setDate and the
\* getters of the result are local: west of Greenwich that instant is still
\* the evening of the day before.
plusOneDayISO(isoDate, z) ==
    LET utc   == SplitYMD(isoDate)
        local == IF z < 0 THEN PrevDay(utc) ELSE utc
    IN  ISODate(NextDay(local))

buildICS(ev, z) ==
    LET startIso == getEventStartISO(ev)
    IN  IF startIso = << >> THEN [status |-> "none", dtstart |-> << >>, dtend |-> << >>]
        ELSE [status  |-> "built",
              dtstart |-> toICSDate(startIso),
              dtend   |-> toICSDate(plusOneDayISO(getEventEndISO(ev), z))]

----------------------------------------------------------------------------
(* The invite text *)

\* String.prototype.replace with a global one-character pattern.
RECURSIVE replaceAll(_, _, _)
replaceAll(text, c, replacement) ==
    IF text = << >> THEN << >>
    ELSE (IF Head(text) = c THEN replacement ELSE <<Head(text)>>)
           \o replaceAll(Tail(text), c, replacement)

escapeICS(text) ==
    replaceAll(
        replaceAll(
            replaceAll(
                replaceAll(text, Backslash, <<Backslash, Backslash>>),
                Newline, <<Backslash, "n">>),
            ",", <<Backslash, ",">>),
        ";", <<Backslash, ";">>)

RECURSIVE trimStart(_)
trimStart(s) ==
    IF s # << >> /\ Head(s) \in {" ", Newline} THEN trimStart(Tail(s)) ELSE s

RECURSIVE trimEnd(_)
trimEnd(s) ==
    IF s # << >> /\ s[Len(s)] \in {" ", Newline}
    THEN trimEnd(SubSeq(s, 1, Len(s) - 1))
    ELSE s

trim(s) == trimEnd(trimStart(s))

buildUID(id) == NumberToString(id) \o <<"@", "a", "n", "e", "s", "t", "h", "e", "s", "i", "a", "-", "c", "o", "n", "g", "r", "e", "s", "s", "-", "c", "a", "l", "e", "n", "d", "a", "r">>

Line(name, value) == [name |-> name, value |-> value]

alarmsDays == <<30, 7, 1>>

\* The five lines of the VALARM of alarmsDays[k].
alarmLines(title, k) ==
    << Line("BEGIN:VALARM", << >>),
       Line("ACTION:DISPLAY", << >>),
       Line("DESCRIPTION", escapeICS(title)),
       Line("TRIGGER", <<"-", "P">> \o NumberToString(alarmsDays[k]) \o <<"D">>),
       Line("END:VALARM", << >>) >>

RECURSIVE alarmLoop(_, _)
alarmLoop(title, k) ==
    IF k > Len(alarmsDays) THEN << >>
    ELSE alarmLines(title, k) \o alarmLoop(title, k + 1)

\* The lines of the calendar text, before lines.join("\r\n").
makeICS(args, stamp) ==
    << Line("BEGIN:VCALENDAR", << >>),
       Line("VERSION:2.0", << >>),
       Line("PRODID", <<"-", "/", "/", "A", "n", "e", "s", "t", "h", "e", "s", "i", "a", " ", "C", "o", "n", "g", "r", "e", "s", "s", " ", "C", "a", "l", "e", "n", "d", "a", "r", "/", "/", "E", "N">>),
       Line("CALSCALE:GREGORIAN", << >>),
       Line("METHOD:PUBLISH", << >>),
       Line("BEGIN:VEVENT", << >>),
       Line("UID", escapeICS(args.uid)),
       Line("DTSTAMP", stamp),
       Line("SUMMARY", escapeICS(args.title)) >>
    \o (IF args.description # << >>
        THEN <<Line("DESCRIPTION", escapeICS(args.description))>> ELSE << >>)
    \o (IF args.location # << >>
        THEN <<Line("LOCATION", escapeICS(args.location))>> ELSE << >>)
    \o << Line("DTSTART;VALUE=DATE", args.startYMD),
          Line("DTEND;VALUE=DATE", args.endYMDExclusive) >>
    \o alarmLoop(args.title, 1)
    \o << Line("END:VEVENT", << >>),
          Line("END:VCALENDAR", << >>) >>

\* title[lang] of an event; the documents carry English titles only.
titleIn(event, l) == IF event.title.isObj /\ l = "en" THEN event.title.en ELSE << >>

\* The arguments downloadICSForEvent passes to makeICS, the table of type
\* and status labels being empty.
downloadArgs(event, l, dates) ==
    LET series == event.series
        year   == IF event.year # << >> THEN NumberToString(event.year[1]) ELSE << >>
        typeLabel == event.type
        title  == IF titleIn(event, l) # << >> THEN titleIn(event, l)
                  ELSE series \o <<" ">> \o year \o <<" ", EmDash, " ">> \o typeLabel
        link   == IF event.link # << >> THEN <<Newline>> \o event.link ELSE << >>
        statusNote == IF event.status # << >> /\ event.status # <<"a", "c", "t", "i", "v", "e">>
                      THEN <<Newline>> \o event.status ELSE << >>
    IN  [uid |-> buildUID(event.id),
         title |-> title,
         description |-> trim(title \o statusNote \o link),
         location |-> event.location,
         startYMD |-> dates.dtstart,
         endYMDExclusive |-> dates.dtend]

getTitleForEvent(ev, l) ==
    IF ev.title.isObj /\ (titleIn(ev, l) # << >> \/ ev.title.en # << >>)
    THEN (IF titleIn(ev, l) # << >> THEN titleIn(ev, l) ELSE ev.title.en)
    ELSE IF ~ev.title.isObj /\ ev.title.en # << >> THEN ev.title.en
    ELSE <<"(", "n", "o", " ", "t", "i", "t", "l", "e", ")">>

RECURSIVE join(_, _)
join(parts, sep) ==
    IF parts = << >> THEN << >>
    ELSE IF Len(parts) = 1 THEN parts[1]
    ELSE parts[1] \o sep \o join(Tail(parts), sep)

\* The lines array of buildICS after filter(Boolean).
buildICSLines(ev, l, dates, stamp) ==
    LET title == getTitleForEvent(ev, l)
        descriptionParts ==
            SelectSeq(<<ev.series, ev.location, ev.link>>, LAMBDA p : p # << >>)
        description == join(descriptionParts, <<" ", EmDash, " ">>)
        uid == NumberToString(ev.id) \o <<"@", "a", "n", "e", "s", "t", "h", "e", "s", "i", "a", "-", "c", "o", "n", "g", "r", "e", "s", "s", "-", "c", "a", "l", "e", "n", "d", "a", "r">>
    IN  << Line("BEGIN:VCALENDAR", << >>),
           Line("VERSION:2.0", << >>),
           Line("PRODID", <<"-", "/", "/", "A", "n", "e", "s", "t", "h", "e", "s", "i", "a", "C", "o", "n", "g", "r", "e", "s", "s", "C", "a", "l", "e", "n", "d", "a", "r", "/", "/", "E", "N">>),
           Line("BEGIN:VEVENT", << >>),
           Line("UID", uid),
           Line("DTSTAMP", stamp),
           Line("DTSTART;VALUE=DATE", dates.dtstart),
           Line("DTEND;VALUE=DATE", dates.dtend),
           Line("SUMMARY", title) >>
        \o (IF description # << >> THEN <<Line("DESCRIPTION", description)>> ELSE << >>)
        \o (IF ev.link # << >> THEN <<Line("URL", ev.link)>> ELSE << >>)
        \o << Line("END:VEVENT", << >>),
              Line("END:VCALENDAR", << >>) >>

\* YYYYMMDDTHHMMSSZ of the clock; the time of day is not followed.
dtstamp(clock) == toICSDate(todayISO(clock)) \o <<"T", "0", "0", "0", "0", "0", "0", "Z">>

----------------------------------------------------------------------------
(* The lookup of interface strings *)

\* i18n?.ui?.[key]?.[l]: << >> when any link of the chain is missing.
chain(table, key, l) ==
    IF table.isNull THEN << >>
    ELSE IF ~table.hasUi THEN << >>
    ELSE IF key \notin DOMAIN table.ui THEN << >>
    ELSE IF l \notin DOMAIN table.ui[key] THEN << >>
    ELSE table.ui[key][l]

\* Mutant: the caller's fallback is preferred to the English string.
ui_fallbackBeforeDefault(table, key, l, fallback) ==
    IF chain(table, key, l) # << >> THEN chain(table, key, l)
    ELSE IF fallback # << >> THEN fallback
    ELSE IF chain(table, key, "en") # << >> THEN chain(table, key, "en")
    ELSE key

ui(table, key, l, fallback) ==
    IF chain(table, key, l) # << >> THEN chain(table, key, l)
    ELSE IF chain(table, key, "en") # << >> THEN chain(table, key, "en")
    ELSE IF fallback # << >> THEN fallback
    ELSE key

\* The tables, keys, languages and fallbacks with which ui() is called.
UiKeys == { <<"t", "o", "d", "a", "y">>, <<"i", "n", "_", "d", "a", "y", "s">>, << >> }

UiEntries ==
    { [k \in {"en"} |-> e] : e \in {<< >>, <<"T", "o", "d", "a", "y">>} }
      \cup { [k \in {"en", "pt"} |-> IF k = "en" THEN e ELSE <<"H", "o", "j", "e">>] : e \in {<< >>, <<"T", "o", "d", "a", "y">>} }
      \cup { [k \in {"pt"} |-> << >>] }

UiTables ==
    { [isNull |-> TRUE, hasUi |-> FALSE, ui |-> << >>],
      [isNull |-> FALSE, hasUi |-> FALSE, ui |-> << >>],
      [isNull |-> FALSE, hasUi |-> TRUE, ui |-> << >>] }
      \cup { [isNull |-> FALSE, hasUi |-> TRUE, ui |-> [k \in {<<"t", "o", "d", "a", "y">>} |-> entry]] :
               entry \in UiEntries }

UiLangs == {"en", "pt", "fr"}

UiFallbacks == { << >>, <<"T", "o", "d", "a", "y">>, <<"N", "o", "w">> }

----------------------------------------------------------------------------
(* The state machine *)

I18N_URL == "i18n"
DATA_URL == "data"

\* The DOM before main() has run: both containers without children.
NoChildren == [emptyState |-> FALSE, cards |-> << >>]

NoInvite ==
    [event |-> 0, by |-> "", status |-> "none", dtstart |-> << >>, dtend |-> << >>,
     lines |-> << >>, downloaded |-> FALSE]

NoCall == [called |-> FALSE]

NotBooted == [booted |-> FALSE]

\* The local days a viewer of the zone can read while the UTC day is `utc`.
LocalDays(z, utc) ==
    IF z < 0 THEN {utc - 1, utc} ELSE IF z > 0 THEN {utc, utc + 1} ELSE {utc}

Init ==
    /\ events \in InputArrays
    /\ now \in 0..MaxDay
    /\ zone = 0
    /\ localDay = now
    /\ fetches = [u \in {I18N_URL, DATA_URL} |-> "pending"]
    /\ phase = "loading"
    /\ i18n = "null"
    /\ data = [loaded |-> FALSE, events |-> << >>]
    /\ deadlines = << >>
    /\ congresses = << >>
    /\ lang = "en"
    /\ storedLang = ""
    /\ classifiedOn = -1
    /\ page = [congresses |-> NoChildren, deadlines |-> NoChildren]
    /\ renderedOn = -1
    /\ ics = NoInvite
    /\ uiCall = NoCall
    /\ boot = NotBooted

\* fetchJson(url) settles: it resolves with the parsed document, or rejects
\* (network error, status not ok, body that is not JSON).
fetchJson(url, outcome) ==
    /\ fetches[url] = "pending"
    /\ fetches' = [fetches EXCEPT ![url] = outcome]
    /\ UNCHANGED <<events, now, localDay, zone, phase, i18n, data, deadlines,
                   congresses, lang, storedLang, classifiedOn, page, renderedOn, ics,
                   uiCall, boot>>

\* Mutant: the pipeline and the first render wait for the events only.
MainOk_dataOnly ==
    /\ phase = "loading"
    /\ fetches[DATA_URL] = "ok"
    /\ LET r == classifyEvents(events, now)
       IN  /\ deadlines' = r.deadlines
           /\ congresses' = r.congresses
           /\ data' = [loaded |-> TRUE, events |-> r.events]
           /\ page' = renderAll(r.congresses, r.deadlines, now)
    /\ i18n' = "loaded"
    /\ \E paramLang \in ParamLangs, navLanguage \in NavLangs :
         lang' = chooseInitialLang(paramLang, storedLang, navLanguage)
    /\ classifiedOn' = now
    /\ renderedOn' = now
    /\ phase' = "ready"
    /\ UNCHANGED <<events, now, localDay, zone, fetches, storedLang, ics,
                   uiCall, boot>>

\* main(): Promise.all resolved, the try block runs to its end.
MainOk ==
    /\ phase = "loading"
    /\ \A u \in DOMAIN fetches : fetches[u] = "ok"
    /\ LET r == classifyEvents(events, now)
       IN  /\ deadlines' = r.deadlines
           /\ congresses' = r.congresses
           /\ data' = [loaded |-> TRUE, events |-> r.events]
           /\ page' = renderAll(r.congresses, r.deadlines, now)
    /\ i18n' = "loaded"
    /\ \E paramLang \in ParamLangs, navLanguage \in NavLangs :
         lang' = chooseInitialLang(paramLang, storedLang, navLanguage)
    /\ classifiedOn' = now
    /\ renderedOn' = now
    /\ phase' = "ready"
    /\ UNCHANGED <<events, now, localDay, zone, fetches, storedLang, ics,
                   uiCall, boot>>

\* Promise.all rejected, or it resolved and classifyEvents(undefined) threw.
Rejected ==
    \/ \E u \in DOMAIN fetches : fetches[u] = "failed"
    \/ fetches[I18N_URL] = "ok" /\ fetches[DATA_URL] = "noEvents"

\* Mutant: the localization table is stored before the events are classified.
MainFail_tableStoredFirst ==
    /\ phase = "loading"
    /\ Rejected
    /\ phase' = "failed"
    /\ i18n' = IF fetches[I18N_URL] = "ok" THEN "loaded" ELSE i18n
    /\ UNCHANGED <<events, now, localDay, zone, fetches, data, deadlines,
                   congresses, lang, storedLang, classifiedOn, page, renderedOn, ics,
                   uiCall, boot>>

\* main(): Promise.all rejected as soon as one fetch did, or classifyEvents
\* threw on a document without events; the catch logs.
MainFail ==
    /\ phase = "loading"
    /\ Rejected
    /\ phase' = "failed"
    /\ UNCHANGED <<events, now, localDay, zone, fetches, i18n, data, deadlines,
                   congresses, lang, storedLang, classifiedOn, page, renderedOn, ics,
                   uiCall, boot>>

\* Mutant: in Portuguese, only the events with a localized title are rendered.
ClickLang_dropsUntitled(code) ==
    /\ phase = "ready"
    /\ code # lang
    /\ lang' = code
    /\ storedLang' = code
    /\ LET titled(list) ==
               IF code = "pt" THEN SelectSeq(list, LAMBDA ev : ev.title.isObj) ELSE list
       IN  page' = renderAll(titled(congresses), titled(deadlines), now)
    /\ renderedOn' = now
    /\ UNCHANGED <<events, now, localDay, zone, fetches, phase, i18n, data,
                   deadlines, congresses, classifiedOn, ics,
                   uiCall, boot>>

\* Mutant: the handler does not return when the button is the active one.
ClickLang_activeButtonToo(code) ==
    /\ phase = "ready"
    /\ lang' = code
    /\ storedLang' = code
    /\ page' = renderAll(congresses, deadlines, now)
    /\ renderedOn' = now
    /\ UNCHANGED <<events, now, localDay, zone, fetches, phase, i18n, data,
                   deadlines, congresses, classifiedOn, ics, uiCall, boot>>

\* Mutant: the listeners are registered when the document is ready, before
\* the load has ended.
ClickLang_registeredAtStart(code) ==
    /\ phase \in {"loading", "ready", "failed"}
    /\ code # lang
    /\ lang' = code
    /\ storedLang' = code
    /\ page' = renderAll(congresses, deadlines, now)
    /\ renderedOn' = now
    /\ UNCHANGED <<events, now, localDay, zone, fetches, phase, i18n, data,
                   deadlines, congresses, classifiedOn, ics, uiCall, boot>>

\* The click handler of a language button carrying `code`.
ClickLang(code) ==
    /\ phase = "ready"
    /\ code # lang
    /\ lang' = code
    /\ storedLang' = code
    /\ page' = renderAll(congresses, deadlines, now)
    /\ renderedOn' = now
    /\ UNCHANGED <<events, now, localDay, zone, fetches, phase, i18n, data,
                   deadlines, congresses, classifiedOn, ics,
                   uiCall, boot>>

\* Midnight UTC passes.  West of Greenwich it comes before the local
\* midnight, east of Greenwich after it.
Tick ==
    /\ now < MaxDay
    /\ zone < 0 => localDay = now
    /\ zone > 0 => localDay = now + 1
    /\ now' = now + 1
    /\ localDay' = IF zone = 0 THEN localDay + 1 ELSE localDay
    /\ UNCHANGED <<events, zone, fetches, phase, i18n, data, deadlines, congresses,
                   lang, storedLang, classifiedOn, page, renderedOn, ics,
                   uiCall, boot>>

\* Local midnight passes for a viewer whose offset is not zero.
TickLocal ==
    /\ zone # 0
    /\ localDay + 1 \in LocalDays(zone, now)
    /\ localDay' = localDay + 1
    /\ UNCHANGED <<events, now, zone, fetches, phase, i18n, data, deadlines,
                   congresses, lang, storedLang, classifiedOn, page, renderedOn, ics,
                   uiCall, boot>>

\* The outcomes of a fetch: for the events, also a JSON document that has
\* no events array.
Outcomes(url) == IF url = DATA_URL THEN {"ok", "failed", "noEvents"} ELSE {"ok", "failed"}

Fetch == \E url \in {I18N_URL, DATA_URL} : \E outcome \in Outcomes(url) : fetchJson(url, outcome)

Next ==
    \/ Fetch
    \/ MainOk
    \/ MainFail
    \/ \E code \in Langs : ClickLang(code)
    \/ Tick
    \/ TickLocal

Spec == Init /\ [][Next]_vars

\* The load alone: the clock value at load time and the document are inputs.
Load == Fetch \/ MainOk \/ MainFail

SpecLoad == Init /\ [][Load]_vars

\* The page from its load on, for viewers of every zone, with the clock running.
InitPage ==
    /\ events \in PageArrays
    /\ now = 0
    /\ zone \in Zones
    /\ localDay \in LocalDays(zone, now)
    /\ fetches = [u \in {I18N_URL, DATA_URL} |-> "pending"]
    /\ phase = "loading"
    /\ i18n = "null"
    /\ data = [loaded |-> FALSE, events |-> << >>]
    /\ deadlines = << >>
    /\ congresses = << >>
    /\ lang = "en"
    /\ storedLang = ""
    /\ classifiedOn = -1
    /\ page = [congresses |-> NoChildren, deadlines |-> NoChildren]
    /\ renderedOn = -1
    /\ ics = NoInvite
    /\ uiCall = NoCall
    /\ boot = NotBooted

SpecPage == InitPage /\ [][Next]_vars

\* A click on the download button of the i-th event, the page being in
\* language l (src/unnamed/part_000).  The TypeError of a missing date ends
\* the handler before makeICS and triggerDownload.
downloadICSForEvent(i, l) ==
    /\ LET dates == downloadDates(events[i])
           built == dates.status = "built"
       IN  ics' = [event |-> i, by |-> "downloadICSForEvent",
                   lines |-> IF built
                             THEN makeICS(downloadArgs(events[i], l, dates), dtstamp(now))
                             ELSE << >>,
                   downloaded |-> built] @@ dates
    /\ UNCHANGED <<events, now, localDay, zone, fetches, phase, i18n, data, deadlines,
                   congresses, lang, storedLang, classifiedOn, page, renderedOn,
                   uiCall, boot>>

\* A click on the download button of the i-th event, the page being in
\* language l (src/unnamed/part_001): buildICS, and the download unless it
\* returned null.
triggerICSDownload(i, l) ==
    /\ LET dates == buildICS(events[i], zone)
           built == dates.status = "built"
       IN  ics' = [event |-> i, by |-> "buildICS",
                   lines |-> IF built
                             THEN buildICSLines(events[i], l, dates, dtstamp(now))
                             ELSE << >>,
                   downloaded |-> built] @@ dates
    /\ UNCHANGED <<events, now, localDay, zone, fetches, phase, i18n, data, deadlines,
                   congresses, lang, storedLang, classifiedOn, page, renderedOn,
                   uiCall, boot>>

\* The invite builders alone, on any event of the document, for viewers of
\* every zone.
InitICS ==
    /\ events \in ICSArrays
    /\ now = 0
    /\ zone \in Zones
    /\ localDay \in LocalDays(zone, now)
    /\ fetches = [u \in {I18N_URL, DATA_URL} |-> "pending"]
    /\ phase = "loading"
    /\ i18n = "null"
    /\ data = [loaded |-> FALSE, events |-> << >>]
    /\ deadlines = << >>
    /\ congresses = << >>
    /\ lang = "en"
    /\ storedLang = ""
    /\ classifiedOn = -1
    /\ page = [congresses |-> NoChildren, deadlines |-> NoChildren]
    /\ renderedOn = -1
    /\ ics = NoInvite
    /\ uiCall = NoCall
    /\ boot = NotBooted

NextICS ==
    \/ \E i \in DOMAIN events, l \in Langs : downloadICSForEvent(i, l)
    \/ \E i \in DOMAIN events, l \in Langs : triggerICSDownload(i, l)

SpecICS == InitICS /\ [][NextICS]_vars

\* The codes that the data-lang-btn attribute of a button of the document
\* may carry: the two supported ones and another one.
ButtonCodes == {"en", "pt", "es"}

NextAnyButton ==
    \/ Fetch
    \/ MainOk
    \/ MainFail
    \/ \E code \in ButtonCodes : ClickLang(code)
    \/ Tick
    \/ TickLocal

\* The page in a document whose language buttons may carry any code.
SpecAnyButton == InitPage /\ [][NextAnyButton]_vars

\* A call of ui() with the arguments held in uiCall.
CallUi ==
    /\ ~uiCall.called
    /\ uiCall' = [uiCall EXCEPT !.called = TRUE,
                                !.result = ui(uiCall.i18n, uiCall.key, uiCall.lang,
                                              uiCall.fallback)]
    /\ UNCHANGED <<events, now, localDay, zone, fetches, phase, i18n, data, deadlines,
                   congresses, lang, storedLang, classifiedOn, page, renderedOn, ics, boot>>

\* ui() alone, on every table, key, language and fallback.
InitUI ==
    /\ events = << >>
    /\ now = 0
    /\ zone = 0
    /\ localDay = now
    /\ fetches = [u \in {I18N_URL, DATA_URL} |-> "pending"]
    /\ phase = "loading"
    /\ i18n = "null"
    /\ data = [loaded |-> FALSE, events |-> << >>]
    /\ deadlines = << >>
    /\ congresses = << >>
    /\ lang = "en"
    /\ storedLang = ""
    /\ classifiedOn = -1
    /\ page = [congresses |-> NoChildren, deadlines |-> NoChildren]
    /\ renderedOn = -1
    /\ ics = NoInvite
    /\ boot = NotBooted
    /\ uiCall \in [called : {FALSE}, i18n : UiTables, key : UiKeys, lang : UiLangs,
                  fallback : UiFallbacks, result : {<< >>}]

SpecUI == InitUI /\ [][CallUi]_vars

----------------------------------------------------------------------------
(* The version that renders before the data arrives (src/unnamed/part_002) *)

\* render() reads currentLocale and rawEvents; what it shows is kept as the
\* locale and the array it read.
render(b) == [b EXCEPT !.rendered = [locale |-> b.currentLocale, events |-> b.rawEvents]]

\* extractEventsFromData of the document fetched.
extractEventsFromData(outcome) == IF outcome = "ok" THEN events ELSE << >>

\* Mutant: the language is set, the page is not rendered again.
setLocale_withoutRender(locale) ==
    /\ boot.booted
    /\ boot' = [boot EXCEPT !.currentLocale = locale,
                            !.selected = locale,
                            !.raced = boot.raced \/ boot.fetch = "pending"]
    /\ UNCHANGED <<events, now, localDay, zone, fetches, phase, i18n, data, deadlines,
                   congresses, lang, storedLang, classifiedOn, page, renderedOn, ics,
                   uiCall>>

\* The click handler of a language button; `selected` and `raced` record the
\* click for the properties.
setLocale(locale) ==
    /\ boot.booted
    /\ boot' = render([boot EXCEPT !.currentLocale = locale,
                                   !.selected = locale,
                                   !.raced = boot.raced \/ boot.fetch = "pending"])
    /\ UNCHANGED <<events, now, localDay, zone, fetches, phase, i18n, data, deadlines,
                   congresses, lang, storedLang, classifiedOn, page, renderedOn, ics,
                   uiCall>>

\* loadData(): the fetch resolved with a JSON document; the second then.
loadDataThen(outcome) ==
    /\ boot.booted
    /\ boot.fetch = "pending"
    /\ boot' = render([boot EXCEPT !.fetch = outcome,
                                   !.rawEvents = extractEventsFromData(outcome)])
    /\ UNCHANGED <<events, now, localDay, zone, fetches, phase, i18n, data, deadlines,
                   congresses, lang, storedLang, classifiedOn, page, renderedOn, ics,
                   uiCall>>

\* loadData(): the fetch failed or the status was not ok; the catch.
loadDataCatch ==
    /\ boot.booted
    /\ boot.fetch = "pending"
    /\ boot' = render([boot EXCEPT !.fetch = "failed", !.rawEvents = << >>])
    /\ UNCHANGED <<events, now, localDay, zone, fetches, phase, i18n, data, deadlines,
                   congresses, lang, storedLang, classifiedOn, page, renderedOn, ics,
                   uiCall>>

\* The state after the DOMContentLoaded handler: the listeners registered, a
\* first render with no events, the fetch under way.
InitBoot ==
    /\ events \in PageArrays
    /\ now = 0
    /\ zone = 0
    /\ localDay = now
    /\ fetches = [u \in {I18N_URL, DATA_URL} |-> "pending"]
    /\ phase = "loading"
    /\ i18n = "null"
    /\ data = [loaded |-> FALSE, events |-> << >>]
    /\ deadlines = << >>
    /\ congresses = << >>
    /\ lang = "en"
    /\ storedLang = ""
    /\ classifiedOn = -1
    /\ page = [congresses |-> NoChildren, deadlines |-> NoChildren]
    /\ renderedOn = -1
    /\ ics = NoInvite
    /\ uiCall = NoCall
    /\ boot = render([booted |-> TRUE, currentLocale |-> "en", rawEvents |-> << >>,
                      fetch |-> "pending", selected |-> "en", raced |-> FALSE,
                      rendered |-> [locale |-> "", events |-> << >>]])

NextBoot ==
    \/ \E locale \in Langs : setLocale(locale)
    \/ \E outcome \in {"ok", "noEvents"} : loadDataThen(outcome)
    \/ loadDataCatch

SpecBoot == InitBoot /\ [][NextBoot]_vars

----------------------------------------------------------------------------
(* Vocabulary of the properties *)

\* Calendar dates as day numbers, computed by integer arithmetic on the parsed
\* fields, independently of the string comparisons of the code.
DigitVal(c) == CodeOf(c) - CodeOf("0")

ParseYMD(str) ==
    << 1000 * DigitVal(str[1]) + 100 * DigitVal(str[2])
         + 10 * DigitVal(str[3]) + DigitVal(str[4]),
       10 * DigitVal(str[6]) + DigitVal(str[7]),
       10 * DigitVal(str[9]) + DigitVal(str[10]) >>

DaysBeforeMonth == <<0, 31, 59, 90, 120, 151, 181, 212, 243, 273, 304, 334>>

DayNumber(ymd) ==
    LET y == ymd[1]
        m == ymd[2]
        d == ymd[3]
    IN  365 * (y - 1) + ((y - 1) \div 4) - ((y - 1) \div 100) + ((y - 1) \div 400)
          + DaysBeforeMonth[m] + (IF m > 2 /\ IsLeap(y) THEN 1 ELSE 0) + d

\* The day number of the today that the classification of main() used.
TodayNum == DayNumber(Epoch) + classifiedOn

HasStart(ev) == ev.date # << >> \/ ev.start_date # << >>

\* effective_start and effective_end of the data model, as day numbers.
StartNum(ev) == DayNumber(ParseYMD(IF ev.date # << >> THEN ev.date ELSE ev.start_date))

EndNum(ev) ==
    DayNumber(ParseYMD(IF ev.end_date # << >> THEN ev.end_date
                       ELSE IF ev.date # << >> THEN ev.date
                       ELSE ev.start_date))

Range(s) == { s[i] : i \in DOMAIN s }

InputEvents == Range(events)

Occurrences(list, ev) == Cardinality({ i \in DOMAIN list : list[i] = ev })

\* The category the rule chain gives an event.
IsDeadlineEvent(ev) == isDeadline(ev) \/ ~isCongress(ev)
IsCongressEvent(ev) == ~isDeadline(ev) /\ isCongress(ev)

Ready == phase = "ready"

----------------------------------------------------------------------------
(* C1 *)

\* C1 (as stated): a Congress event is absent from the Congress output when
\* its effective_end is before today, and present when its effective_end is
\* today or later (here: whenever no other Congress event of the input shares
\* its series, so that deduplication cannot be what removes it).
C1_CongressListedThroughLastDay ==
    Ready =>
        \A ev \in InputEvents :
            (IsCongressEvent(ev) /\ HasStart(ev)) =>
                /\ (EndNum(ev) < TodayNum => ev \notin Range(congresses))
                /\ ( ( /\ EndNum(ev) >= TodayNum
                       /\ \A other \in InputEvents \ {ev} :
                             IsCongressEvent(other) =>
                                 toLowerCase(other.series) # toLowerCase(ev.series) )
                     => ev \in Range(congresses) )

----------------------------------------------------------------------------
(* C2 *)

\* C2: a Deadline event never appears in the Deadline output when its
\* effective_start is before today, and appears when its effective_start is
\* today or later.
C2_DeadlineUpcomingIffStartNotBeforeToday ==
    Ready =>
        \A ev \in InputEvents :
            (IsDeadlineEvent(ev) /\ HasStart(ev)) =>
                /\ (StartNum(ev) < TodayNum => ev \notin Range(deadlines))
                /\ (StartNum(ev) >= TodayNum => ev \in Range(deadlines))

\* A deadline dated today is listed while a deadline dated before today is not.
C2_Witness ==
    /\ Ready
    /\ \E ev \in InputEvents :
          IsDeadlineEvent(ev) /\ HasStart(ev) /\ StartNum(ev) = TodayNum
            /\ ev \in Range(deadlines)
    /\ \E ev \in InputEvents :
          IsDeadlineEvent(ev) /\ HasStart(ev) /\ StartNum(ev) < TodayNum
            /\ ev \notin Range(deadlines)

----------------------------------------------------------------------------
(* C3 *)

Dated(evs) == SelectSeq(evs, LAMBDA ev : HasStart(ev))

\* C3: an event with neither date nor start_date is in neither output list,
\* and the lists are those the same array gives without the undated events.
C3_UndatedEventsAreInvisible ==
    Ready =>
        /\ \A ev \in InputEvents :
              ~HasStart(ev) =>
                  ev \notin Range(deadlines) /\ ev \notin Range(congresses)
        /\ LET r == classifyEvents(Dated(events), classifiedOn)
           IN  deadlines = r.deadlines /\ congresses = r.congresses

\* An undated event (it has an end_date only, not yet past) was loaded next
\* to a congress of its series that is listed.
C3_Witness ==
    /\ Ready
    /\ \E ev \in InputEvents :
          /\ ~HasStart(ev)
          /\ EndNum(ev) >= TodayNum
          /\ \E c \in Range(congresses) : toLowerCase(c.series) = toLowerCase(ev.series)

----------------------------------------------------------------------------
(* C4 *)

RECURSIVE TrimLeft(_)
TrimLeft(str) ==
    IF str # << >> /\ Head(str) = " " THEN TrimLeft(Tail(str)) ELSE str

RECURSIVE TrimRight(_)
TrimRight(str) ==
    IF str # << >> /\ str[Len(str)] = " "
    THEN TrimRight(SubSeq(str, 1, Len(str) - 1))
    ELSE str

\* The series with case and surrounding whitespace normalized.
NormalizedSeries(ev) == toLowerCase(TrimRight(TrimLeft(ev.series)))

UpcomingCongress(ev) ==
    IsCongressEvent(ev) /\ HasStart(ev) /\ StartNum(ev) >= TodayNum

\* C4 (as stated): of two upcoming Congress events with the same normalized
\* non-empty series and effective_start d1 < d2, the one with d2 is not in the
\* Congress output, and the one with d1 is in it when no Congress event of the
\* series starts as soon or sooner.
C4_OnlySoonestEditionPerSeries ==
    Ready =>
        \A e1 \in InputEvents, e2 \in InputEvents :
            ( /\ UpcomingCongress(e1) /\ UpcomingCongress(e2)
              /\ NormalizedSeries(e1) # << >>
              /\ NormalizedSeries(e1) = NormalizedSeries(e2)
              /\ StartNum(e1) < StartNum(e2) )
            => /\ e2 \notin Range(congresses)
               /\ ( (\A e0 \in InputEvents \ {e1} :
                        (UpcomingCongress(e0)
                           /\ NormalizedSeries(e0) = NormalizedSeries(e1))
                        => StartNum(e0) > StartNum(e1))
                    => e1 \in Range(congresses) )

----------------------------------------------------------------------------
(* C5 *)

\* C5: an upcoming event whose type holds a deadline token is in the Deadline
\* output and not in the Congress output, whatever the congress rules say of
\* its type, series and title.
C5_DeadlineTokenWinsOverCongressRules ==
    Ready =>
        \A ev \in InputEvents :
            (isDeadline(ev) /\ HasStart(ev) /\ StartNum(ev) >= TodayNum) =>
                ev \in Range(deadlines) /\ ev \notin Range(congresses)

\* Listed as deadlines: an event whose type holds a deadline token and a
\* congress token, and an event with a deadline type and a congress-brand
\* series.
C5_Witness ==
    /\ Ready
    /\ \E ev \in Range(deadlines) :
          /\ isDeadline(ev)
          /\ \E k \in 1..Len(CONGRESS_TYPES) :
                includes(toLowerCase(ev.type), CONGRESS_TYPES[k])
    /\ \E ev \in Range(deadlines) :
          /\ isDeadline(ev)
          /\ includes(toLowerCase(ev.series), <<"w", "c", "a">>)

----------------------------------------------------------------------------
(* C6 *)

NoRepeats(list) == \A i \in DOMAIN list, j \in DOMAIN list : list[i] = list[j] => i = j

UpcomingInput ==
    { ev \in InputEvents : HasStart(ev) /\ StartNum(ev) >= TodayNum }

\* C6: before deduplication the two lists are disjoint, hold no event twice,
\* and together hold exactly the upcoming events of the input; the stored
\* lists are made of those events.
C6_ExactlyOneCategory ==
    Ready =>
        LET upcoming == upcomingFilter(events, todayISO(classifiedOn))
            dl == pushedDeadlines(upcoming)
            cg == pushedCongresses(upcoming)
        IN  /\ Range(dl) \cap Range(cg) = {}
            /\ Range(dl) \cup Range(cg) = UpcomingInput
            /\ NoRepeats(dl) /\ NoRepeats(cg)
            /\ Range(deadlines) = Range(dl) /\ NoRepeats(deadlines)
            /\ Range(congresses) \subseteq Range(cg) /\ NoRepeats(congresses)
            /\ Range(deadlines) \cap Range(congresses) = {}

\* Both lists are non-empty and an upcoming event matches the deadline rule
\* and a congress rule at once.
C6_Witness ==
    /\ Ready
    /\ deadlines # << >>
    /\ congresses # << >>
    /\ \E ev \in UpcomingInput : isDeadline(ev) /\ isCongress(ev)

----------------------------------------------------------------------------
(* C7 *)

----------------------------------------------------------------------------
(* C8 *)

PriorityOf(ev) == IF ev.priority = << >> THEN 0 ELSE ev.priority[1]

SortedByStartThenPriority(list) ==
    \A i \in DOMAIN list, j \in DOMAIN list :
        i < j =>
            /\ StartNum(list[i]) <= StartNum(list[j])
            /\ (StartNum(list[i]) = StartNum(list[j])
                  => PriorityOf(list[i]) >= PriorityOf(list[j]))

\* C8 (as stated): each output list is non-decreasing by effective_start, and
\* among events with equal effective_start the higher priority comes first.
C8_SortedByStartThenPriority ==
    Ready =>
        SortedByStartThenPriority(deadlines) /\ SortedByStartThenPriority(congresses)

----------------------------------------------------------------------------
(* C9 *)

\* C9: every upcoming Deadline event is in the Deadline output, once, and
\* the output holds nothing else: no deadline is dropped as a duplicate.
C9_DeadlinesNeverDeduplicated ==
    Ready =>
        /\ \A ev \in UpcomingInput :
              IsDeadlineEvent(ev) => Occurrences(deadlines, ev) = 1
        /\ Len(deadlines) = Cardinality({ ev \in UpcomingInput : IsDeadlineEvent(ev) })

\* Two deadlines of one series are listed, and the input holds a Congress
\* event of that series.
C9_Witness ==
    /\ Ready
    /\ \E d1 \in Range(deadlines), d2 \in Range(deadlines) :
          /\ d1 # d2
          /\ d1.series # << >>
          /\ toLowerCase(d1.series) = toLowerCase(d2.series)
          /\ \E c \in InputEvents :
                IsCongressEvent(c) /\ toLowerCase(c.series) = toLowerCase(d1.series)

----------------------------------------------------------------------------
(* C10 *)

\* C10: every upcoming Congress event with an empty or missing series is in
\* the Congress output.
C10_SerieslessCongressesAllKept ==
    Ready =>
        \A ev \in InputEvents :
            (UpcomingCongress(ev) /\ ev.series = << >>) => Occurrences(congresses, ev) = 1

\* Two series-less congresses are listed next to a congress of a named series.
C10_Witness ==
    /\ Ready
    /\ \E c1 \in Range(congresses), c2 \in Range(congresses), c3 \in Range(congresses) :
          c1 # c2 /\ c1.series = << >> /\ c2.series = << >> /\ c3.series # << >>

----------------------------------------------------------------------------
(* C11 *)

\* C11 (as stated): two upcoming Congress events whose series differ only in
\* letter case or in leading/trailing whitespace belong to the same group, so
\* they are never both in the Congress output.
C11_SeriesGroupedByNormalizedName ==
    Ready =>
        \A e1 \in InputEvents, e2 \in InputEvents :
            ( /\ e1 # e2
              /\ UpcomingCongress(e1) /\ UpcomingCongress(e2)
              /\ e1.series # e2.series
              /\ NormalizedSeries(e1) # << >>
              /\ NormalizedSeries(e1) = NormalizedSeries(e2) )
            => ~ (e1 \in Range(congresses) /\ e2 \in Range(congresses))

\* The part of C11 that the code does implement: series that differ only in
\* letter case are one group.
C11_CaseVariantsGrouped ==
    Ready =>
        \A e1 \in InputEvents, e2 \in InputEvents :
            ( /\ e1 # e2
              /\ UpcomingCongress(e1) /\ UpcomingCongress(e2)
              /\ e1.series # << >>
              /\ toLowerCase(e1.series) = toLowerCase(e2.series) )
            => ~ (e1 \in Range(congresses) /\ e2 \in Range(congresses))

----------------------------------------------------------------------------
(* Vocabulary of the page properties *)

IsDigitChar(c) == DigitVal(c) >= 0 /\ DigitVal(c) <= 9

\* A well-formed YYYY-MM-DD calendar date.
IsYMD(str) ==
    /\ Len(str) = 10
    /\ \A i \in {1, 2, 3, 4, 6, 7, 9, 10} : IsDigitChar(str[i])
    /\ str[5] = "-" /\ str[8] = "-"
    /\ ParseYMD(str)[2] \in 1..12
    /\ ParseYMD(str)[3] \in 1..DaysInMonth(ParseYMD(str)[1], ParseYMD(str)[2])

\* The date fields an event carries.
DateFields(ev) == { f \in {ev.date, ev.start_date, ev.end_date} : f # << >> }

\* Every date field the event carries is well-formed, and it has a start.
WellDated(ev) == HasStart(ev) /\ \A f \in DateFields(ev) : IsYMD(f)

\* The events of the cards of a container, in document order.
CardEvents(container) == [i \in DOMAIN container.cards |-> container.cards[i].ev]

Blank == [congresses |-> NoChildren, deadlines |-> NoChildren]

\* The day number of the today that the last renderAll() could read.
RenderTodayNum == DayNumber(Epoch) + renderedOn

----------------------------------------------------------------------------
(* C12 *)

\* C12 (as stated): after each render, the Deadline list shown contains only
\* events whose effective_start, and the Congress list shown only events whose
\* effective_end, is on or after the today of that render.
C12_ShownListsFreshAtEveryRender ==
    renderedOn >= 0 =>
        /\ \A ev \in Range(CardEvents(page.deadlines)) :
              WellDated(ev) => StartNum(ev) >= RenderTodayNum
        /\ \A ev \in Range(CardEvents(page.congresses)) :
              WellDated(ev) => EndNum(ev) >= RenderTodayNum

----------------------------------------------------------------------------
(* C13 *)

LabelledToday(container, ev) ==
    \E i \in DOMAIN container.cards :
        container.cards[i].ev = ev /\ container.cards[i].label.today

\* C13 (as stated): when the page loads at an instant at which the viewer's
\* local date differs from the UTC date, a deadline dated on the local today
\* is listed and labelled as today, and a deadline dated on the local
\* yesterday is not listed.
C13_TodayIsTheLocalDate ==
    [][ (phase = "loading" /\ phase' = "ready" /\ localDay' # now') =>
          \A ev \in InputEvents :
              (IsDeadlineEvent(ev) /\ WellDated(ev)) =>
                  /\ (StartNum(ev) = DayNumber(Epoch) + localDay') =>
                        /\ ev \in Range(deadlines')
                        /\ LabelledToday(page'.deadlines, ev)
                  /\ (StartNum(ev) = DayNumber(Epoch) + localDay' - 1) =>
                        /\ ev \notin Range(deadlines')
                        /\ ev \notin Range(CardEvents(page'.deadlines)) ]_vars

\* What holds instead: the today of the filter and of the label is the UTC date.
C13_TodayIsTheUTCDate ==
    [][ (phase = "loading" /\ phase' = "ready") =>
          \A ev \in InputEvents :
              (IsDeadlineEvent(ev) /\ WellDated(ev)) =>
                  /\ (StartNum(ev) = DayNumber(Epoch) + now') =>
                        /\ ev \in Range(deadlines')
                        /\ LabelledToday(page'.deadlines, ev)
                  /\ (StartNum(ev) = DayNumber(Epoch) + now' - 1) =>
                        /\ ev \notin Range(deadlines')
                        /\ ev \notin Range(CardEvents(page'.deadlines)) ]_vars

----------------------------------------------------------------------------
(* C14 *)

\* C14: a language toggle changes neither the Deadline and Congress lists of
\* the application state nor the events shown in the two containers or their
\* order; before and after it the containers show exactly the lists.
C14_ListsIndependentOfLanguage ==
    [][ (phase = "ready" /\ lang' # lang) =>
          /\ deadlines' = deadlines
          /\ congresses' = congresses
          /\ CardEvents(page'.deadlines) = CardEvents(page.deadlines)
          /\ CardEvents(page'.congresses) = CardEvents(page.congresses)
          /\ CardEvents(page'.deadlines) = deadlines
          /\ CardEvents(page'.congresses) = congresses ]_vars

\* The page was toggled to Portuguese and shows events in both lists.
C14_Witness ==
    /\ Ready
    /\ lang = "pt" /\ storedLang = "pt"
    /\ page.deadlines.cards # << >>
    /\ page.congresses.cards # << >>

----------------------------------------------------------------------------
(* C16 *)

\* C16: once loaded, and after any number of renders, the events array held
\* by the application is the array of the document: same length, same order,
\* same field values.
C16_InputArrayNotMutated ==
    data.loaded => data.events = events

\* An array that a sort would reorder was classified and rendered twice.
C16_Witness ==
    /\ Ready
    /\ storedLang # ""
    /\ data.events = events
    /\ \E i \in DOMAIN events, j \in DOMAIN events :
          /\ i < j
          /\ WellDated(events[i]) /\ WellDated(events[j])
          /\ StartNum(events[i]) > StartNum(events[j])
          /\ events[j] \in Range(deadlines) \cup Range(congresses)

----------------------------------------------------------------------------
(* C17 *)

\* Something of the load was stored in the application state.
Stored ==
    \/ i18n # "null"
    \/ data.loaded
    \/ deadlines # << >>
    \/ congresses # << >>

\* C17: whatever the order in which the two fetches settle, a classification
\* result is stored and the lists are rendered only when both fetches have
\* succeeded; when one of them failed nothing is stored and nothing rendered.
C17_PipelineOnlyAfterBothFetches ==
    /\ (Stored \/ page # Blank \/ Ready) =>
          \A u \in DOMAIN fetches : fetches[u] = "ok"
    /\ (\E u \in DOMAIN fetches : fetches[u] = "failed") =>
          ~Stored /\ page = Blank /\ classifiedOn = -1 /\ renderedOn = -1

\* The events were fetched, the localization table was not: main() has
\* ended with nothing stored and nothing rendered.
C17_Witness ==
    /\ phase = "failed"
    /\ fetches[DATA_URL] = "ok"
    /\ fetches[I18N_URL] = "failed"
    /\ events # << >>
    /\ ~Stored /\ page = Blank

----------------------------------------------------------------------------
(* C18 *)

\* The containers show nothing but the empty-list messages.
OnlyEmptyMessages ==
    \A kind \in {"congresses", "deadlines"} :
        page[kind].emptyState /\ page[kind].cards = << >>

\* C18 (as stated): when a fetch has failed and main() has ended, the page is
\* neither blank nor showing only the empty-list messages.
C18_FailureIsVisible ==
    phase = "failed" => (page # Blank /\ ~OnlyEmptyMessages)

----------------------------------------------------------------------------
(* C19 *)

\* The event carries date fields, and none of them is a well-formed date.
OnlyMalformedDates(ev) ==
    DateFields(ev) # {} /\ \A f \in DateFields(ev) : ~IsYMD(f)

\* C19 (as stated): an event whose only date fields are malformed is in no
\* output list and on no card.
C19_MalformedDatesAreAbsent ==
    Ready =>
        \A ev \in InputEvents :
            OnlyMalformedDates(ev) =>
                /\ ev \notin Range(deadlines) \cup Range(congresses)
                /\ ev \notin Range(CardEvents(page.deadlines))
                         \cup Range(CardEvents(page.congresses))

----------------------------------------------------------------------------
(* C20 *)

\* The day number of a YYYYMMDD string.
ICSDayNumber(str) ==
    DayNumber(<< 1000 * DigitVal(str[1]) + 100 * DigitVal(str[2])
                   + 10 * DigitVal(str[3]) + DigitVal(str[4]),
                 10 * DigitVal(str[5]) + DigitVal(str[6]),
                 10 * DigitVal(str[7]) + DigitVal(str[8]) >>)

\* The invite is built, from effective_start to the day after effective_end.
InviteRightFor(ev) ==
    /\ ics.status = "built"
    /\ Len(ics.dtstart) = 8 /\ Len(ics.dtend) = 8
    /\ \A i \in 1..8 : IsDigitChar(ics.dtstart[i]) /\ IsDigitChar(ics.dtend[i])
    /\ ICSDayNumber(ics.dtstart) = StartNum(ev)
    /\ ICSDayNumber(ics.dtend) = EndNum(ev) + 1

\* C20 (as stated): for every event with a usable start date and every
\* viewer offset, the invite built has DTSTART = effective_start and
\* DTEND = the day after effective_end, as YYYYMMDD.
C20_InviteCoversStartThroughDayAfterEnd ==
    (ics.event # 0 /\ HasStart(events[ics.event])) => InviteRightFor(events[ics.event])

\* What downloadICSForEvent does give: the right dates, for every offset, for
\* an event with `date` and for a `congress` with start_date and end_date.
C20_DownloadRightForDateOrCongressRange ==
    ( /\ ics.event # 0 /\ ics.by = "downloadICSForEvent"
      /\ LET ev == events[ics.event]
         IN  \/ ev.date # << >> /\ ev.end_date = << >>
             \/ /\ ev.type = <<"c", "o", "n", "g", "r", "e", "s", "s">>
                /\ ev.date = << >> /\ ev.start_date # << >> /\ ev.end_date # << >> )
    => InviteRightFor(events[ics.event])

\* What buildICS does give: the right dates for viewers at or east of Greenwich.
C20_BuildRightAtOrEastOfGreenwich ==
    (ics.event # 0 /\ ics.by = "buildICS" /\ zone >= 0 /\ HasStart(events[ics.event]))
    => InviteRightFor(events[ics.event])

----------------------------------------------------------------------------
(* C21 *)

LineNames(lines) == [k \in DOMAIN lines |-> lines[k].name]

\* The text is a whole calendar: opened, closed, with the dates and a title.
CompleteInvite(lines) ==
    /\ lines # << >>
    /\ lines[1].name = "BEGIN:VCALENDAR"
    /\ lines[Len(lines)].name = "END:VCALENDAR"
    /\ \A n \in {"BEGIN:VEVENT", "UID", "SUMMARY", "DTSTART;VALUE=DATE",
                 "DTEND;VALUE=DATE", "END:VEVENT"} :
          Cardinality({ k \in DOMAIN lines : lines[k].name = n }) = 1
    /\ \A k \in DOMAIN lines :
          lines[k].name \in {"DTSTART;VALUE=DATE", "DTEND;VALUE=DATE"}
            => Len(lines[k].value) = 8

\* No invite text and no download came out of the click.
NothingEmitted == ics.status # "built" /\ ics.lines = << >> /\ ~ics.downloaded

\* The click gave a complete invite and its download.
InviteEmitted == ics.status = "built" /\ CompleteInvite(ics.lines) /\ ics.downloaded

\* C21 (as stated): a click on an event without date and start_date emits
\* no invite text and starts no download; a click on an event with a date or
\* a start_date, whatever its type, yields a complete invite.
C21_InviteIffResolvableStart ==
    ics.event # 0 =>
        /\ ~HasStart(events[ics.event]) => NothingEmitted
        /\ HasStart(events[ics.event]) => InviteEmitted

\* What holds of both builders: no start, nothing emitted; and of buildICS:
\* a start, of whatever type, a complete invite.
C21_NoStartNothingEmittedAndBuildICSComplete ==
    ics.event # 0 =>
        /\ ~HasStart(events[ics.event]) => NothingEmitted
        /\ (HasStart(events[ics.event]) /\ ics.by = "buildICS") => InviteEmitted

----------------------------------------------------------------------------
(* C22 *)

\* The depth of open blocks after each line never goes below zero, an END
\* closes the block opened last, and all blocks are closed at the end.
RECURSIVE WellNested(_, _)
WellNested(names, open) ==
    IF names = << >> THEN open = << >>
    ELSE LET n == Head(names)
         IN  IF n \in {"BEGIN:VCALENDAR", "BEGIN:VEVENT", "BEGIN:VALARM"}
             THEN WellNested(Tail(names), <<n>> \o open)
             ELSE IF n = "END:VCALENDAR"
             THEN open # << >> /\ Head(open) = "BEGIN:VCALENDAR"
                    /\ WellNested(Tail(names), Tail(open))
             ELSE IF n = "END:VEVENT"
             THEN open # << >> /\ Head(open) = "BEGIN:VEVENT"
                    /\ WellNested(Tail(names), Tail(open))
             ELSE IF n = "END:VALARM"
             THEN open # << >> /\ Head(open) = "BEGIN:VALARM"
                    /\ WellNested(Tail(names), Tail(open))
             ELSE WellNested(Tail(names), open)

Positions(lines, n) == { k \in DOMAIN lines : lines[k].name = n }

\* Exactly three alarm blocks, all inside the one event block, with the
\* triggers of 30, 7 and 1 days before the start, one block for each.
ThreeAlarms(lines) ==
    /\ Cardinality(Positions(lines, "BEGIN:VEVENT")) = 1
    /\ Cardinality(Positions(lines, "BEGIN:VALARM")) = 3
    /\ Cardinality(Positions(lines, "END:VALARM")) = 3
    /\ \A b \in Positions(lines, "BEGIN:VALARM") :
          /\ \E e \in Positions(lines, "BEGIN:VEVENT") : e < b
          /\ \E e \in Positions(lines, "END:VEVENT") : b < e
    /\ \A t \in { <<"-", "P", "3", "0", "D">>, <<"-", "P", "7", "D">>, <<"-", "P", "1", "D">> } :
          Cardinality({ k \in Positions(lines, "TRIGGER") : lines[k].value = t }) = 1
    /\ Cardinality(Positions(lines, "TRIGGER")) = 3
    /\ WellNested(LineNames(lines), << >>)

\* C22 (as stated): every invite built holds exactly three alarm blocks in
\* its event block, for 30, 7 and 1 days before the start, properly nested.
C22_ThreeNestedAlarms ==
    ics.status = "built" => ThreeAlarms(ics.lines)

\* What holds: the invites of makeICS have the three alarm blocks.
C22_MakeICSThreeNestedAlarms ==
    (ics.status = "built" /\ ics.by = "downloadICSForEvent") => ThreeAlarms(ics.lines)

----------------------------------------------------------------------------
(* C23 *)

\* Reading the value from the left, every backslash starts one of the four
\* escapes, and no comma, semicolon or newline stands outside an escape.
RECURSIVE ProperlyEscaped(_)
ProperlyEscaped(v) ==
    IF v = << >> THEN TRUE
    ELSE IF Head(v) = Backslash
    THEN /\ Len(v) >= 2
         /\ v[2] \in {Backslash, "n", ",", ";"}
         /\ ProperlyEscaped(SubSeq(v, 3, Len(v)))
    ELSE Head(v) \notin {",", ";", Newline} /\ ProperlyEscaped(Tail(v))

\* The text that a properly escaped value stands for.
RECURSIVE Unescape(_)
Unescape(v) ==
    IF v = << >> THEN << >>
    ELSE IF Head(v) = Backslash /\ Len(v) >= 2
    THEN <<IF v[2] = "n" THEN Newline ELSE v[2]>> \o Unescape(SubSeq(v, 3, Len(v)))
    ELSE <<Head(v)>> \o Unescape(Tail(v))

TextLineNames == {"UID", "SUMMARY", "DESCRIPTION", "LOCATION"}

EscapedTexts(lines, ev) ==
    \A k \in DOMAIN lines :
        /\ lines[k].name \in TextLineNames => ProperlyEscaped(lines[k].value)
        /\ lines[k].name = "LOCATION" => Unescape(lines[k].value) = ev.location

\* C23 (as stated): in every invite the identity, title, description and
\* location are written with backslash, comma, semicolon and newline escaped,
\* the backslashes of the escapes themselves not escaped again.
C23_TextValuesEscaped ==
    ics.status = "built" => EscapedTexts(ics.lines, events[ics.event])

\* What holds: the text values written by makeICS are escaped, and the
\* location reads back as the location of the event.
C23_MakeICSTextValuesEscaped ==
    (ics.status = "built" /\ ics.by = "downloadICSForEvent")
        => EscapedTexts(ics.lines, events[ics.event])

----------------------------------------------------------------------------
(* C24 *)

\* The string the table holds for a key in a language, << >> when it holds none.
TableString(table, key, l) ==
    IF /\ ~table.isNull /\ table.hasUi
       /\ key \in DOMAIN table.ui
       /\ l \in DOMAIN table.ui[key]
    THEN table.ui[key][l]
    ELSE << >>

\* C24: ui() returns the string of the requested language when the table has
\* one, else the English string when the table has one, else the fallback
\* when one was passed, else the key; for every table, a null one included.
C24_LookupPreferenceOrder ==
    uiCall.called =>
        LET requested == TableString(uiCall.i18n, uiCall.key, uiCall.lang)
            default   == TableString(uiCall.i18n, uiCall.key, "en")
        IN  /\ requested # << >> => uiCall.result = requested
            /\ (requested = << >> /\ default # << >>) => uiCall.result = default
            /\ (requested = << >> /\ default = << >> /\ uiCall.fallback # << >>)
                  => uiCall.result = uiCall.fallback
            /\ (requested = << >> /\ default = << >> /\ uiCall.fallback = << >>)
                  => uiCall.result = uiCall.key

\* A call for a language the table lacks, with a fallback that differs from
\* the English string: the English string was returned.
C24_Witness ==
    /\ uiCall.called
    /\ uiCall.lang = "pt"
    /\ TableString(uiCall.i18n, uiCall.key, "pt") = << >>
    /\ TableString(uiCall.i18n, uiCall.key, "en") # << >>
    /\ uiCall.fallback # << >>
    /\ uiCall.fallback # TableString(uiCall.i18n, uiCall.key, "en")
    /\ uiCall.result = TableString(uiCall.i18n, uiCall.key, "en")

----------------------------------------------------------------------------
(* C25 *)

\* C25 (as stated): the selected language is one of en and pt, after the
\* initial choice and after every click, whatever code the button carries.
C25_LanguageAlwaysSupported ==
    lang \in {"en", "pt"}

\* What holds: the initial choice is en or pt for every URL parameter, stored
\* preference and browser language, and clicks on en and pt buttons keep it so.
C25_SupportedWithSupportedButtons ==
    lang \in {"en", "pt"} /\ storedLang \in {"", "en", "pt"}

----------------------------------------------------------------------------
(* C26 *)

\* C26: a step that changes the language of the loaded page stores the new
\* language, and a load without ?lang= then starts in it whatever the browser
\* language; a step that does not change the language (a click on the active
\* button is no step at all) writes nothing and renders nothing.
C26_TogglePersisted ==
    [][ phase = "ready" =>
          IF lang' # lang
          THEN /\ storedLang' = lang'
               /\ \A navLanguage \in NavLangs :
                     chooseInitialLang("", storedLang', navLanguage) = lang'
          ELSE UNCHANGED <<storedLang, page, renderedOn>> ]_vars

\* The page was toggled to Portuguese in a browser set to English: a load
\* without parameter would start in Portuguese.
C26_Witness ==
    /\ Ready
    /\ lang = "pt"
    /\ storedLang = "pt"
    /\ chooseInitialLang("", "", <<"e", "n", "-", "U", "S">>) = "en"
    /\ chooseInitialLang("", storedLang, <<"e", "n", "-", "U", "S">>) = "pt"

----------------------------------------------------------------------------
(* C27 *)

----------------------------------------------------------------------------
(* C28 *)

\* The five fields of appState as the script declares them.
AppStateInitial ==
    /\ i18n = "null"
    /\ ~data.loaded
    /\ deadlines = << >>
    /\ congresses = << >>
    /\ lang = "en"

\* C28: while the load is pending, and after a load that failed (a fetch was
\* rejected, or the document had no events array), the five fields of
\* appState have their initial values; they are set together, by a load that
\* succeeded.
C28_AppStateAllOrNothing ==
    /\ phase # "ready" => AppStateInitial
    /\ (\/ \E u \in DOMAIN fetches : fetches[u] = "failed"
        \/ fetches[DATA_URL] = "noEvents") => (phase # "ready" /\ AppStateInitial)
    /\ phase = "ready" => (i18n = "loaded" /\ data.loaded)

\* The localization table arrived, the events document had no events array,
\* and main() has ended in its catch.
C28_Witness ==
    /\ phase = "failed"
    /\ fetches[I18N_URL] = "ok"
    /\ fetches[DATA_URL] = "noEvents"
    /\ AppStateInitial

----------------------------------------------------------------------------
(* C29 *)

AllCards == Range(page.deadlines.cards) \cup Range(page.congresses.cards)

\* The label is "today" exactly when the start is the given day, and
\* otherwise counts the days to the start, at least one.
LabelRight(card, todayNum) ==
    /\ card.label.today <=> StartNum(card.ev) = todayNum
    /\ ~card.label.today =>
          /\ card.label.n = <<StartNum(card.ev) - todayNum>>
          /\ StartNum(card.ev) - todayNum >= 1

\* C29 (as stated): after every render, each card of an event with a
\* well-formed start is labelled "today" when its effective_start is the
\* today of that render, and "in n days" with n the day difference, n >= 1,
\* otherwise.
C29_LabelsTodayOrPositiveCount ==
    renderedOn >= 0 =>
        \A card \in AllCards : WellDated(card.ev) => LabelRight(card, RenderTodayNum)

\* What holds: the labels of the well-dated cards of a render made on the
\* day of the classification.
C29_LabelsRightOnTheDayOfTheLoad ==
    (renderedOn >= 0 /\ renderedOn = classifiedOn) =>
        \A card \in AllCards : WellDated(card.ev) => LabelRight(card, RenderTodayNum)

----------------------------------------------------------------------------
(* C30 *)

\* C30: in the version that renders before the data arrives, whatever the
\* order of the clicks and of the end of the fetch, the page shows the
\* locale selected last together with the outcome of the fetch: no events
\* while it is pending and after a failure, the events of the document after
\* a success.
C30_LastRenderLocaleAndOutcome ==
    boot.booted =>
        /\ boot.rendered.locale = boot.selected
        /\ boot.rendered.events = (IF boot.fetch = "ok" THEN events ELSE << >>)

\* A click to Portuguese came while the fetch was pending, the fetch then
\* succeeded: the page shows the events in Portuguese.
C30_Witness ==
    /\ boot.booted
    /\ boot.raced
    /\ boot.selected = "pt"
    /\ boot.fetch = "ok"
    /\ events # << >>
    /\ boot.rendered = [locale |-> "pt", events |-> events]

============================================================================
